---- MODULE Spec2Model ----
(***************************************************************************)
(* Model of instaseis' ReciprocalMergedInstaseisDB                          *)
(* (database_interfaces/reciprocal_merged_instaseis_db.py): the buffered    *)
(* decode-and-interpolate pipeline, the two element buffers and the         *)
(* contraction of the interpolated fields with the rotated source.          *)
(*                                                                          *)
(* Arrays keep the source's 0-based indices: an array axis of length k is   *)
(* a function over 0..k-1.  A time-major field utemp[t][a][b] is the        *)
(* channel vector at time sample t and GLL node (a, b).  Floating point     *)
(* numbers are integers here; the stored values are multiples of 4 so that  *)
(* the bilinear interpolation weights (quarters) stay exact.                *)
(***************************************************************************)
EXTENDS Integers, Sequences, FiniteSets, TLC

VARIABLES
    ncomp,          \* number of variables of f["MergedSnapshots"] (nvars)
    dump_type,      \* self.info.dump_type
    budget,         \* buffer_size_in_mb, in bytes (both buffers get it)
    strain_buffer,  \* mesh.strain_buffer, least recently used entry first
    displ_buffer,   \* mesh.displ_buffer, least recently used entry first
    use_s,          \* ids in order of their last add/get on strain_buffer
    use_d,          \* ids in order of their last add/get on displ_buffer
    session,        \* which pipeline the calls of this run of the model use
    call,           \* the last _get_strain_interp / _get_displacement call
    query,          \* the last _get_data / _get_data_multiple call
    dec,            \* decoder runs on drawn snapshot blocks
    syn,            \* contraction runs on drawn fields
    hlp             \* runs of the helpers io_chunker and resample

vars == <<ncomp, dump_type, budget, strain_buffer, displ_buffer,
          use_s, use_d, session, call, query, dec, syn, hlp>>

----------------------------------------------------------------------------
(* Bounds of the model *)

NElem == 3
NT == 2
MaxBudget == 3
MaxSources == 2

Elements == 1..NElem
Times == 1..NT
\* GLL points of a first-order element: col_points_xi = col_points_eta
GLL == {-1, 1}
\* target coordinates (xi, eta) used by the calls: a corner node, the element
\* centre and an edge midpoint
Targets == {<<-1, -1>>, <<0, 0>>, <<1, 0>>}
NComps == 1..5
DumpTypes == {"displ_only", "fullfields"}
Components == {"Z", "R", "T", "N", "E"}

None == << >>
IsNone(a) == DOMAIN a = {}
NoErr == "none"

----------------------------------------------------------------------------
(* Storage: f["MergedSnapshots"][id_elem], shape (nvars, jpol, ipol, npts) *)

RawValue(e, c, a, b, t) ==
    4 * (e * 1000 + (c + 1) * 100 + (a + 1) * 20 + (b + 1) * 5 + t)

MergedSnapshots(nc, e) ==
    [c \in 0..(nc - 1) |->
        [a \in GLL |-> [b \in GLL |-> [t \in Times |-> RawValue(e, c, a, b, t)]]]]

\* number of channels of a time-major field (its last axis)
NChan(u) == Cardinality(DOMAIN u[1][-1][-1])

\* the three np.rollaxis calls: (nvars, jpol, ipol, npts) -> (npts, jpol, ipol, nvars)
ReorderUtemp(block) ==
    [t \in Times |-> [a \in GLL |-> [b \in GLL |->
        [c \in DOMAIN block |-> block[c][a][b][t]]]]]

----------------------------------------------------------------------------
(* numpy views and copies on the last axis *)

\* u[:, :, :, lo:lo+n] followed by np.require(..., requirements=["F"]): the
\* rolled block is not Fortran-contiguous for npol >= 1, so require() copies
RequireSlice(u, lo, n) ==
    [t \in Times |-> [a \in GLL |-> [b \in GLL |->
        [c \in 0..(n - 1) |-> u[t][a][b][lo + c]]]]]

\* view[:, :, :, dst] = view[:, :, :, src] on the view u[:, :, :, off:]
AssignChannel(u, off, dst, src) ==
    [t \in Times |-> [a \in GLL |-> [b \in GLL |->
        [u[t][a][b] EXCEPT ![off + dst] = u[t][a][b][off + src]]]]]

\* view[:, :, :, c][:] = 0 on the view u[:, :, :, off:]
ZeroChannel(u, off, c) ==
    [t \in Times |-> [a \in GLL |-> [b \in GLL |->
        [u[t][a][b] EXCEPT ![off + c] = 0]]]]

\* start and length of u[:, :, :, -3:] and of u[:, :, :, :3]
Last3Off(nc) == IF nc >= 3 THEN nc - 3 ELSE 0
Last3Len(nc) == IF nc >= 3 THEN 3 ELSE nc
First3Len(nc) == IF nc >= 3 THEN 3 ELSE nc

----------------------------------------------------------------------------
(* External operators (sem_derivatives, spectral_basis): stand-ins.         *)
(* The strain operators are pointwise integer maps of the three channels   *)
(* that differ between dipole and monopole and depend on the operator       *)
(* matrix GT handed in; the interpolation is the exact bilinear Lagrange    *)
(* interpolation on the first-order GLL points {-1, 1}.                     *)

\* G, GT selection of _get_data / _get_data_multiple: G2/G1T on the axis
ElementAxis(e) == e = 1
SelectGT(axis) == IF axis THEN "G1T" ELSE "G2T"
GTCoef(GT) == IF GT = "G1T" THEN 2 ELSE 1

StrainDipoleTd(u, GT) ==
    [t \in Times |-> [a \in GLL |-> [b \in GLL |->
        LET v == u[t][a][b] IN
        [i \in 0..5 |->
            CASE i = 0 -> GTCoef(GT) * v[0]
              [] i = 1 -> v[1]
              [] i = 2 -> v[2]
              [] i = 3 -> v[0] + v[1]
              [] i = 4 -> v[1] + v[2]
              [] i = 5 -> v[0] - v[2]]]]]

StrainMonopoleTd(u, GT) ==
    [t \in Times |-> [a \in GLL |-> [b \in GLL |->
        LET v == u[t][a][b] IN
        [i \in 0..5 |->
            CASE i = 0 -> v[0]
              [] i = 1 -> GTCoef(GT) * v[0] + v[1]
              [] i = 2 -> v[2]
              [] i = 3 -> v[1] + v[2]
              [] i = 4 -> v[0] + v[2]
              [] i = 5 -> 2 * v[1] + v[0]]]]]

\* lagrange_interpol_2D_td(col_points_xi, col_points_eta, u[:, :, :, i], xi, eta)
LagrangeInterpol2DTd(u, i, xi, eta) ==
    [t \in Times |->
        ( u[t][-1][-1][i] * (1 - xi) * (1 - eta)
        + u[t][-1][1][i]  * (1 - xi) * (1 + eta)
        + u[t][1][-1][i]  * (1 + xi) * (1 - eta)
        + u[t][1][1][i]   * (1 + xi) * (1 + eta) ) \div 4]

----------------------------------------------------------------------------
(* SnapshotDecoder: the decoded groups of _get_strain_interp and of         *)
(* _get_displacement                                                        *)

\* lines 433-436 and 441-442: the horizontal group of the strain path
StrainUtempX(utemp) ==
    IF NChan(utemp) >= 3 THEN RequireSlice(utemp, 0, 3) ELSE None

\* the vertical group with the two in-place writes in the other order
StrainUtempZZeroFirst(utemp) ==
    LET nc == NChan(utemp) IN
    IF nc \in {2, 5}
    THEN IF nc = 2
         THEN [t \in Times |-> [a \in GLL |-> [b \in GLL |->
                 [c \in 0..2 |-> CASE c = 0 -> utemp[t][a][b][0]
                                   [] c = 1 -> 0
                                   [] c = 2 -> utemp[t][a][b][1]]]]]
         ELSE LET off == Last3Off(nc)
                  u1 == ZeroChannel(utemp, off, 1)
                  u2 == AssignChannel(u1, off, 0, 1)
              IN RequireSlice(u2, off, 3)
    ELSE None

\* lines 445-461 and 467-468: the vertical group of the strain path
StrainUtempZ(utemp) ==
    LET nc == NChan(utemp) IN
    IF nc \in {2, 5}
    THEN IF nc = 2
         THEN [t \in Times |-> [a \in GLL |-> [b \in GLL |->
                 [c \in 0..2 |-> CASE c = 0 -> utemp[t][a][b][0]
                                   [] c = 1 -> 0
                                   [] c = 2 -> utemp[t][a][b][1]]]]]
         ELSE LET off == Last3Off(nc)
                  u1 == AssignChannel(utemp, off, 0, 1)
                  u2 == ZeroChannel(u1, off, 1)
              IN RequireSlice(u2, off, 3)
    ELSE None

\* the displacement decoder with the horizontal group left a view of the
\* block that the remap writes to
DisplUtempShared(utemp) ==
    LET nc == NChan(utemp)
        off == Last3Off(nc)
        len == Last3Len(nc)
    IN IF len < 2
       THEN [err |-> "IndexError", x |-> RequireSlice(utemp, 0, First3Len(nc)),
             z |-> None]
       ELSE [err |-> NoErr,
             x |-> RequireSlice(ZeroChannel(AssignChannel(utemp, off, 0, 1), off, 1),
                                0, First3Len(nc)),
             z |-> RequireSlice(ZeroChannel(AssignChannel(utemp, off, 0, 1), off, 1),
                                off, len)]

\* lines 499-507: both groups of the displacement path; the in-place remap
\* of utemp[:, :, :, -3:] raises IndexError when the block has one channel
DisplUtemp(utemp) ==
    LET nc == NChan(utemp)
        off == Last3Off(nc)
        len == Last3Len(nc)
        x == RequireSlice(utemp, 0, First3Len(nc))
    IN IF len < 2
       THEN [err |-> "IndexError", x |-> x, z |-> None]
       ELSE LET u1 == AssignChannel(utemp, off, 0, 1)
                u2 == ZeroChannel(u1, off, 1)
            IN [err |-> NoErr, x |-> x, z |-> RequireSlice(u2, off, len)]

----------------------------------------------------------------------------
(* ElementCache: mesh.Buffer.  A buffer is the sequence of its entries,    *)
(* least recently used first; an entry is [id, value], value = [x, z].      *)

\* bytes of a float64 array of shape (npts, 2, 2, channels), or of an
\* interpolated one of shape (npts, channels); a null sub-field takes none
ArrayBytes(a) ==
    IF IsNone(a) THEN 0
    ELSE IF DOMAIN a[1] = GLL THEN NT * 4 * NChan(a) * 8
    ELSE NT * Cardinality(DOMAIN a[1]) * 8
SizeOfItem(value) == ArrayBytes(value.x) + ArrayBytes(value.z)

RECURSIVE TotalSize(_)
TotalSize(buf) ==
    IF buf = << >> THEN 0 ELSE SizeOfItem(Head(buf).value) + TotalSize(Tail(buf))

BufferIds(buf) == {buf[i].id : i \in DOMAIN buf}
BufferContains(buf, key) == key \in BufferIds(buf)
BufferIndex(buf, key) == CHOOSE i \in DOMAIN buf : buf[i].id = key
BufferValue(buf, key) == buf[BufferIndex(buf, key)].value

\* get(key): the entry becomes the most recently used one
BufferGet(buf, key) ==
    IF ~BufferContains(buf, key)
    THEN [err |-> "KeyError", buf |-> buf, value |-> [x |-> None, z |-> None]]
    ELSE LET i == BufferIndex(buf, key)
             rest == SubSeq(buf, 1, i - 1) \o SubSeq(buf, i + 1, Len(buf))
         IN [err |-> NoErr, buf |-> Append(rest, buf[i]), value |-> buf[i].value]

\* the eviction loop of add: drop the least recently used entry while the
\* total size exceeds the budget
RECURSIVE Evict(_, _)
Evict(buf, max) ==
    IF TotalSize(buf) > max THEN Evict(Tail(buf), max) ELSE buf

\* add(key, value)
BufferAdd(buf, key, value, max) ==
    Evict(Append(buf, [id |-> key, value |-> value]), max)

\* bytes of one cached strain array; the budgets of the model are multiples
StrainArrayBytes == NT * 4 * 6 * 8
Budgets == {k * StrainArrayBytes : k \in 0..MaxBudget}

----------------------------------------------------------------------------
(* _get_and_reorder_utemp, _get_strain_interp, _get_displacement            *)

GetAndReorderUtemp(nc, id_elem) == ReorderUtemp(MergedSnapshots(nc, id_elem))

\* the miss branch with the pair handed to add in the wrong order
StrainMissSwapped(buf, max, nc, id_elem, GT) ==
    LET utemp == GetAndReorderUtemp(nc, id_elem)
        utemp_x == StrainUtempX(utemp)
        utemp_z == StrainUtempZ(utemp)
        strain_x == IF IsNone(utemp_x) THEN None ELSE StrainDipoleTd(utemp_x, GT)
        strain_z == IF IsNone(utemp_z) THEN None ELSE StrainMonopoleTd(utemp_z, GT)
        value == [x |-> strain_x, z |-> strain_z]
    IN [err |-> NoErr,
        buf |-> BufferAdd(buf, id_elem, [x |-> strain_z, z |-> strain_x], max),
        value |-> value,
        reads |-> 1,
        derivs |-> (IF IsNone(utemp_x) THEN 0 ELSE 1) + (IF IsNone(utemp_z) THEN 0 ELSE 1),
        ops |-> <<"contains", "add">>]

\* lines 422-470: the miss branch of _get_strain_interp
StrainMiss(buf, max, nc, id_elem, GT) ==
    LET utemp == GetAndReorderUtemp(nc, id_elem)
        utemp_x == StrainUtempX(utemp)
        utemp_z == StrainUtempZ(utemp)
        strain_x == IF IsNone(utemp_x) THEN None ELSE StrainDipoleTd(utemp_x, GT)
        strain_z == IF IsNone(utemp_z) THEN None ELSE StrainMonopoleTd(utemp_z, GT)
        value == [x |-> strain_x, z |-> strain_z]
    IN [err |-> NoErr,
        buf |-> BufferAdd(buf, id_elem, value, max),
        value |-> value,
        reads |-> 1,
        derivs |-> (IF IsNone(utemp_x) THEN 0 ELSE 1) + (IF IsNone(utemp_z) THEN 0 ELSE 1),
        ops |-> <<"contains", "add">>]

\* the hit branch reading the entry without get's recency update
StrainHitPeek(buf, id_elem) ==
    [err |-> NoErr, buf |-> buf, value |-> BufferValue(buf, id_elem),
     reads |-> 0, derivs |-> 0, ops |-> <<"contains", "get">>]

\* lines 471-472: the hit branch of _get_strain_interp
StrainHit(buf, id_elem) ==
    LET g == BufferGet(buf, id_elem)
    IN [err |-> g.err, buf |-> g.buf, value |-> g.value,
        reads |-> 0, derivs |-> 0, ops |-> <<"contains", "get">>]

\* the interpolation pass negating positions 3 and 5 of either group
InterpStrainNegateBoth(strain, name, xi, eta) ==
    [t \in Times |->
        [i \in 0..5 |-> IF i \in {3, 5}
                        THEN (-1) * LagrangeInterpol2DTd(strain, i, xi, eta)[t]
                        ELSE LagrangeInterpol2DTd(strain, i, xi, eta)[t]]]

\* lines 479-487: one pass of the interpolation loop
InterpStrain(strain, name, xi, eta) ==
    LET final_strain == [t \in Times |->
            [i \in 0..5 |-> LagrangeInterpol2DTd(strain, i, xi, eta)[t]]]
    IN IF name # "strain_z"
       THEN [t \in Times |->
                [i \in 0..5 |-> IF i \in {3, 5} THEN (-1) * final_strain[t][i]
                                                ELSE final_strain[t][i]]]
       ELSE final_strain

\* lines 474-491
AllStrains(value, xi, eta) ==
    [x |-> IF IsNone(value.x) THEN None
                              ELSE InterpStrain(value.x, "strain_x", xi, eta),
     z |-> IF IsNone(value.z) THEN None
                              ELSE InterpStrain(value.z, "strain_z", xi, eta),
     interps |-> (IF IsNone(value.x) THEN 0 ELSE 6) + (IF IsNone(value.z) THEN 0 ELSE 6)]

\* _get_strain_interp without the test of the buffer: every call decodes
GetStrainInterpUncached(buf, max, nc, id_elem, GT, xi, eta) ==
    [err |-> NoErr,
     buf |-> StrainMiss(buf, max, nc, id_elem, GT).buf,
     hit |-> BufferContains(buf, id_elem),
     x |-> AllStrains(StrainMiss(buf, max, nc, id_elem, GT).value, xi, eta).x,
     z |-> AllStrains(StrainMiss(buf, max, nc, id_elem, GT).value, xi, eta).z,
     reads |-> 1,
     derivs |-> StrainMiss(buf, max, nc, id_elem, GT).derivs,
     interps |-> AllStrains(StrainMiss(buf, max, nc, id_elem, GT).value, xi, eta).interps,
     ops |-> <<"contains", "add">>]

\* _get_strain_interp(id_elem, ..., G, GT, ..., xi, eta) on the buffer buf
GetStrainInterp(buf, max, nc, id_elem, GT, xi, eta) ==
    LET hit == BufferContains(buf, id_elem)
        f == IF hit THEN StrainHit(buf, id_elem)
                    ELSE StrainMiss(buf, max, nc, id_elem, GT)
        s == AllStrains(f.value, xi, eta)
    IN IF f.err # NoErr
       THEN [err |-> f.err, buf |-> f.buf, hit |-> hit, x |-> None, z |-> None,
             reads |-> f.reads, derivs |-> f.derivs, interps |-> 0, ops |-> f.ops]
       ELSE [err |-> NoErr, buf |-> f.buf, hit |-> hit, x |-> s.x, z |-> s.z,
             reads |-> f.reads, derivs |-> f.derivs, interps |-> s.interps,
             ops |-> f.ops]

\* lines 497-509: the miss branch of _get_displacement
DisplMiss(buf, max, nc, id_elem) ==
    LET utemp == GetAndReorderUtemp(nc, id_elem)
        d == DisplUtemp(utemp)
        value == [x |-> d.x, z |-> d.z]
    IN IF d.err # NoErr
       THEN [err |-> d.err, buf |-> buf, value |-> value, reads |-> 1,
             ops |-> <<"contains">>]
       ELSE [err |-> NoErr, buf |-> BufferAdd(buf, id_elem, value, max),
             value |-> value, reads |-> 1, ops |-> <<"contains", "add">>]

\* the hit branch applying the in-place remap to the cached vertical group
DisplHitRemap(buf, id_elem) ==
    [err |-> NoErr,
     buf |-> Append(SelectSeq(buf, LAMBDA en : en.id # id_elem),
                    [id |-> id_elem,
                     value |-> [x |-> BufferValue(buf, id_elem).x,
                                z |-> ZeroChannel(AssignChannel(
                                          BufferValue(buf, id_elem).z, 0, 0, 1),
                                          0, 1)]]),
     value |-> BufferValue(buf, id_elem),
     reads |-> 0, ops |-> <<"contains", "get">>]

\* lines 510-512: the hit branch of _get_displacement
DisplHit(buf, id_elem) ==
    LET g == BufferGet(buf, id_elem)
    IN [err |-> g.err, buf |-> g.buf, value |-> g.value,
        reads |-> 0, ops |-> <<"contains", "get">>]

\* lines 514-527: utemp_x[:, :, :, i] and utemp_z[:, :, :, i] for i in
\* range(3); a group with fewer than three channels raises IndexError
FinalDisplacement(value, xi, eta) ==
    LET nx == NChan(value.x)
        nz == NChan(value.z)
        n == IF nx < nz THEN nx ELSE nz
    IN IF n < 3
       THEN [err |-> "IndexError", x |-> None, z |-> None,
             interps |-> 2 * n + (IF nx > n THEN 1 ELSE 0)]
       ELSE [err |-> NoErr,
             x |-> [t \in Times |->
                     [i \in 0..2 |-> LagrangeInterpol2DTd(value.x, i, xi, eta)[t]]],
             z |-> [t \in Times |->
                     [i \in 0..2 |-> LagrangeInterpol2DTd(value.z, i, xi, eta)[t]]],
             interps |-> 6]

\* _get_displacement(id_elem, ..., xi, eta) on the buffer buf
GetDisplacement(buf, max, nc, id_elem, xi, eta) ==
    LET hit == BufferContains(buf, id_elem)
        f == IF hit THEN DisplHit(buf, id_elem)
                    ELSE DisplMiss(buf, max, nc, id_elem)
        s == FinalDisplacement(f.value, xi, eta)
    IN IF f.err # NoErr
       THEN [err |-> f.err, buf |-> f.buf, hit |-> hit, x |-> None, z |-> None,
             reads |-> f.reads, derivs |-> 0, interps |-> 0, ops |-> f.ops]
       ELSE [err |-> s.err, buf |-> f.buf, hit |-> hit, x |-> s.x, z |-> s.z,
             reads |-> f.reads, derivs |-> 0, interps |-> s.interps, ops |-> f.ops]

\* lines 549-553 and 578-583: the three interpolations of a decoded group
InterpGroup(u, xi, eta) ==
    [t \in Times |-> [i \in 0..2 |-> LagrangeInterpol2DTd(u, i, xi, eta)[t]]]

\* lines 535-602: the miss branch of _get_displacement_and_strain_interp;
\* the decoding of lines 545-549 and 563-577 is that of _get_strain_interp
CombinedMiss(sbuf, dbuf, max, nc, id_elem, GT, xi, eta) ==
    LET utemp == GetAndReorderUtemp(nc, id_elem)
        utemp_x == StrainUtempX(utemp)
        utemp_z == StrainUtempZ(utemp)
        strain == [x |-> IF IsNone(utemp_x) THEN None
                         ELSE StrainDipoleTd(utemp_x, GT),
                   z |-> IF IsNone(utemp_z) THEN None
                         ELSE StrainMonopoleTd(utemp_z, GT)]
        displ == [x |-> IF IsNone(utemp_x) THEN None
                        ELSE InterpGroup(utemp_x, xi, eta),
                  z |-> IF IsNone(utemp_z) THEN None
                        ELSE InterpGroup(utemp_z, xi, eta)]
        n == (IF IsNone(utemp_x) THEN 0 ELSE 1) + (IF IsNone(utemp_z) THEN 0 ELSE 1)
    IN [err |-> NoErr,
        sbuf |-> BufferAdd(sbuf, id_elem, strain, max),
        dbuf |-> BufferAdd(dbuf, id_elem, displ, max),
        strain |-> strain, displ |-> displ,
        reads |-> 1, derivs |-> n, interps |-> 3 * n,
        ops_s |-> <<"contains", "add">>,
        ops_d |-> <<"contains", "add">>]

\* lines 604-607: the other branch, a get on each buffer
CombinedHit(sbuf, dbuf, id_elem) ==
    LET gs == BufferGet(sbuf, id_elem)
        gd == BufferGet(dbuf, id_elem)
        \* "not in strain_buffer and not in displ_buffer": the second test
        \* is made only when the first one holds
        tests_d == IF BufferContains(sbuf, id_elem) THEN << >> ELSE <<"contains">>
    IN IF gs.err # NoErr
       THEN [err |-> gs.err, sbuf |-> sbuf, dbuf |-> dbuf,
             strain |-> gs.value, displ |-> gs.value,
             reads |-> 0, derivs |-> 0, interps |-> 0,
             ops_s |-> <<"contains", "get">>, ops_d |-> tests_d]
       ELSE [err |-> gd.err, sbuf |-> gs.buf, dbuf |-> gd.buf,
             strain |-> gs.value, displ |-> gd.value,
             reads |-> 0, derivs |-> 0, interps |-> 0,
             ops_s |-> <<"contains", "get">>,
             ops_d |-> tests_d \o <<"get">>]

\* lines 609-630 on the fetched fields
CombinedReturn(f, hit, xi, eta) ==
    IF f.err # NoErr
    THEN [err |-> f.err, sbuf |-> f.sbuf, dbuf |-> f.dbuf, hit |-> hit,
          x |-> None, z |-> None, dx |-> None, dz |-> None,
          reads |-> f.reads, derivs |-> f.derivs, interps |-> f.interps,
          ops |-> f.ops_s, ops_d |-> f.ops_d]
    ELSE [err |-> NoErr, sbuf |-> f.sbuf, dbuf |-> f.dbuf, hit |-> hit,
          x |-> AllStrains(f.strain, xi, eta).x,
          z |-> AllStrains(f.strain, xi, eta).z,
          dx |-> f.displ.x, dz |-> f.displ.z,
          reads |-> f.reads, derivs |-> f.derivs,
          interps |-> f.interps + AllStrains(f.strain, xi, eta).interps,
          ops |-> f.ops_s, ops_d |-> f.ops_d]

\* _get_displacement_and_strain_interp(id_elem, ..., G, GT, ..., xi, eta)
GetDisplacementAndStrainInterp(sbuf, dbuf, max, nc, id_elem, GT, xi, eta) ==
    IF ~BufferContains(sbuf, id_elem) /\ ~BufferContains(dbuf, id_elem)
    THEN CombinedReturn(CombinedMiss(sbuf, dbuf, max, nc, id_elem, GT, xi, eta),
                        FALSE, xi, eta)
    ELSE CombinedReturn(CombinedHit(sbuf, dbuf, id_elem), TRUE, xi, eta)

----------------------------------------------------------------------------
(* Specification of the buffered pipeline: calls of _get_strain_interp and  *)
(* of _get_displacement on an opened database                               *)

\* id moved to the end of a use order
Touch(order, id) == Append(SelectSeq(order, LAMBDA j : j # id), id)
Used(ops) == \E i \in DOMAIN ops : ops[i] \in {"add", "get"}

NoCall == [op |-> "none", e |-> 0, xi |-> 0, eta |-> 0, hit |-> FALSE,
           err |-> NoErr, x |-> None, z |-> None,
           reads |-> 0, derivs |-> 0, interps |-> 0, ops |-> << >>]
NoQuery == [op |-> "none"]
NoDec == [op |-> "none"]
NoSyn == [op |-> "none"]
NoHlp == [op |-> "none"]

CallRecord(op, e, xi, eta, r) ==
    [op |-> op, e |-> e, xi |-> xi, eta |-> eta, hit |-> r.hit, err |-> r.err,
     x |-> r.x, z |-> r.z, reads |-> r.reads, derivs |-> r.derivs,
     interps |-> r.interps, ops |-> r.ops]

Init ==
    /\ ncomp \in NComps
    /\ dump_type = "displ_only"
    /\ budget \in Budgets
    /\ strain_buffer = << >>
    /\ displ_buffer = << >>
    /\ use_s = << >>
    /\ use_d = << >>
    /\ session \in {"strain", "displ"}
    /\ call = NoCall
    /\ query = NoQuery
    /\ dec = NoDec
    /\ syn = NoSyn
    /\ hlp = NoHlp

CallGetStrainInterp(e, xi, eta) ==
    LET r == GetStrainInterp(strain_buffer, budget, ncomp, e,
                             SelectGT(ElementAxis(e)), xi, eta)
    IN /\ session = "strain"
       /\ strain_buffer' = r.buf
       /\ use_s' = IF Used(r.ops) THEN Touch(use_s, e) ELSE use_s
       /\ call' = CallRecord("strain", e, xi, eta, r)
       /\ UNCHANGED <<ncomp, dump_type, budget, displ_buffer, use_d, session, query,
                       dec, syn, hlp>>

CallGetDisplacement(e, xi, eta) ==
    LET r == GetDisplacement(displ_buffer, budget, ncomp, e, xi, eta)
    IN /\ session = "displ"
       /\ displ_buffer' = r.buf
       /\ use_d' = IF Used(r.ops) THEN Touch(use_d, e) ELSE use_d
       /\ call' = CallRecord("displ", e, xi, eta, r)
       /\ UNCHANGED <<ncomp, dump_type, budget, strain_buffer, use_s, session, query,
                       dec, syn, hlp>>

Next ==
    \E e \in Elements, p \in Targets :
        \/ CallGetStrainInterp(e, p[1], p[2])
        \/ CallGetDisplacement(e, p[1], p[2])

Spec == Init /\ [][Next]_vars

----------------------------------------------------------------------------
(* Specification of the combined fetch: calls of                            *)
(* _get_displacement_and_strain_interp on an opened database                *)

InitCombined ==
    /\ ncomp \in NComps
    /\ dump_type = "displ_only"
    /\ budget \in Budgets
    /\ strain_buffer = << >>
    /\ displ_buffer = << >>
    /\ use_s = << >>
    /\ use_d = << >>
    /\ session = "combined"
    /\ call = NoCall
    /\ query = NoQuery
    /\ dec = NoDec
    /\ syn = NoSyn
    /\ hlp = NoHlp

CombinedStep(e, xi, eta, r) ==
    /\ session = "combined"
    /\ strain_buffer' = r.sbuf
    /\ displ_buffer' = r.dbuf
    /\ call' = CallRecord("combined", e, xi, eta, r)
                   @@ [dx |-> r.dx, dz |-> r.dz, ops_d |-> r.ops_d]
    /\ UNCHANGED <<ncomp, dump_type, budget, use_s, use_d, session, query,
                   dec, syn, hlp>>

CallGetDisplacementAndStrainInterp(e, xi, eta) ==
    CombinedStep(e, xi, eta,
                 GetDisplacementAndStrainInterp(strain_buffer, displ_buffer,
                                                budget, ncomp, e,
                                                SelectGT(ElementAxis(e)), xi, eta))

NextCombined ==
    \E e \in Elements, p \in Targets :
        CallGetDisplacementAndStrainInterp(e, p[1], p[2])

SpecCombined == InitCombined /\ [][NextCombined]_vars

\* bytes of the strain entry of an element, the largest entry there is
StrainEntryBytes ==
    SizeOfItem(StrainMiss(<< >>, 0, ncomp, 1, "G2T").value)

\* C12: get(id) on a buffer is only called when that buffer contains id,
\* so no call of the pipeline ends with the KeyError of get; this is stated
\* for _get_displacement_and_strain_interp, whatever the two buffers hold
\* when the call starts (here with a budget that every single entry fits).
C12_GetIsGuarded ==
    (call.op # "none" /\ StrainEntryBytes <= budget) => call.err # "KeyError"

----------------------------------------------------------------------------
(* Properties of the buffered pipeline (under Spec) *)

\* what a call on a database whose buffers are empty returns: the miss
MissResult(op, e, xi, eta) ==
    IF op = "strain"
    THEN GetStrainInterp(<< >>, budget, ncomp, e, SelectGT(ElementAxis(e)), xi, eta)
    ELSE GetDisplacement(<< >>, budget, ncomp, e, xi, eta)

\* C1: a call of _get_strain_interp or _get_displacement that hits the buffer
\* returns, for the same element and the same target coordinate, exactly
\* what the miss for that element returns (the same fields, or the same
\* error).
C1_HitEqualsMiss ==
    (call.op # "none" /\ call.hit) =>
        LET m == MissResult(call.op, call.e, call.xi, call.eta)
        IN /\ call.err = m.err
           /\ call.x = m.x
           /\ call.z = m.z

C1_Witness ==
    /\ call.op = "strain"
    /\ call.hit
    /\ call.err = NoErr
    /\ ~IsNone(call.x)
    /\ ~IsNone(call.z)
    /\ call.x # call.z

IdsOf(buf) == [i \in DOMAIN buf |-> buf[i].id]
Suffix(order, n) == SubSeq(order, Len(order) - n + 1, Len(order))

\* the bytes of the entry that a miss of this database adds
EntrySize(op) == SizeOfItem(
    IF op = "strain"
    THEN StrainMiss(<< >>, 0, ncomp, 1, "G2T").value
    ELSE DisplMiss(<< >>, 0, ncomp, 1).value)

WithinBudget(buf) == TotalSize(buf) <= budget
\* the retained entries are the most recently used ids, in order of use
RetainsMostRecent(buf, order) ==
    /\ Len(buf) <= Len(order)
    /\ IdsOf(buf) = Suffix(order, Len(buf))
\* an id was evicted only because it did not fit beside the retained ones
EvictsOnlyForSpace(buf, order, op) ==
    Len(buf) < Len(order) => TotalSize(buf) + EntrySize(op) > budget
ContainsMostRecent(buf, order) ==
    order # << >> => BufferContains(buf, order[Len(order)])

ReusesPair(e) ==
    LET value == BufferValue(strain_buffer, e)
        s == AllStrains(value, call'.xi, call'.eta)
    IN /\ call'.hit
       /\ call'.err = NoErr
       /\ call'.reads = 0
       /\ call'.derivs = 0
       /\ call'.ops = <<"contains", "get">>
       /\ call'.interps = s.interps
       /\ call'.x = s.x
       /\ call'.z = s.z
       /\ BufferContains(strain_buffer', e)
       /\ BufferValue(strain_buffer', e) = value

\* C14: a call of _get_strain_interp for an element that the strain buffer
\* holds (added and not evicted since) reads no snapshot block and calls no
\* derivative operator; it interpolates the cached pair at the target
\* coordinate of this call and returns that.
C14_CachedPairReused ==
    [][(session = "strain" /\ call'.op = "strain"
        /\ BufferContains(strain_buffer, call'.e)) => ReusesPair(call'.e)]_vars

\* a hit at the target (1, 0) whose result differs from the one at (-1, -1)
C14_Witness ==
    /\ call.op = "strain"
    /\ call.hit
    /\ call.reads = 0
    /\ call.derivs = 0
    /\ call.interps = 12
    /\ call.xi = 1
    /\ call.x # MissResult("strain", call.e, -1, -1).x
    /\ call.z # MissResult("strain", call.e, -1, -1).z

\* the pair that the decode of element e hands to add
InsertedStrain(e) == StrainMiss(<< >>, 0, ncomp, e, SelectGT(ElementAxis(e))).value
InsertedDispl(e) == DisplMiss(<< >>, 0, ncomp, e).value

\* C15: the arrays of a buffer entry are never modified after insertion:
\* at every time each entry of the strain buffer and of the displacement
\* buffer holds the values that were inserted for its element, whatever
\* calls (hits with their interpolation and negation, decodes of the same
\* or of other elements, evictions) came in between.
C15_EntriesImmutable ==
    /\ session = "strain" =>
          \A i \in DOMAIN strain_buffer :
              strain_buffer[i].value = InsertedStrain(strain_buffer[i].id)
    /\ session = "displ" =>
          \A i \in DOMAIN displ_buffer :
              displ_buffer[i].value = InsertedDispl(displ_buffer[i].id)

\* a hit on a 5-channel element while the buffer holds another element too
C15_Witness ==
    /\ call.op = "displ"
    /\ call.hit
    /\ call.err = NoErr
    /\ ncomp = 5
    /\ Len(displ_buffer) >= 2
    /\ BufferContains(displ_buffer, call.e)
    /\ BufferValue(displ_buffer, call.e).z # BufferValue(displ_buffer, call.e).x

\* the interpolated derivative output of a cached strain field
Interpolated(strain, i, t) == LagrangeInterpol2DTd(strain, i, call.xi, call.eta)[t]

\* C16: in the result of _get_strain_interp the horizontal strain has the
\* Voigt positions 3 and 5 negated once relative to the interpolated
\* derivative output and the positions 0, 1, 2, 4 unchanged, the vertical
\* strain has no position negated, and a group that the component count
\* does not provide is null.
C16_NegationOfShear ==
    (call.op = "strain" /\ call.err = NoErr) =>
        LET v == InsertedStrain(call.e) IN
        /\ IsNone(call.x) <=> ncomp < 3
        /\ IsNone(call.z) <=> ncomp \notin {2, 5}
        /\ ~IsNone(call.x) =>
              \A t \in Times, i \in 0..5 :
                  call.x[t][i] = IF i \in {3, 5} THEN -Interpolated(v.x, i, t)
                                                 ELSE Interpolated(v.x, i, t)
        /\ ~IsNone(call.z) =>
              \A t \in Times, i \in 0..5 : call.z[t][i] = Interpolated(v.z, i, t)

\* a hit on a 5-channel element whose shear terms are not zero
C16_Witness ==
    /\ call.op = "strain"
    /\ call.hit
    /\ ncomp = 5
    /\ call.x[1][3] # 0
    /\ call.x[1][5] # 0
    /\ call.z[1][3] # 0
    /\ call.z[1][5] # 0
    /\ call.x[1][0] # 0

----------------------------------------------------------------------------
(* Specification of the snapshot decoder alone: the decoders of the strain *)
(* path and of the displacement path run on snapshot blocks whose channel   *)
(* values are drawn                                                         *)

DVals == {-1, 0, 2}
\* a positive factor that differs between nodes and time samples
NodeFactor(a, b, t) == 10 * t + 2 * (a + 1) + (b + 1)

DrawnBlock(nc, base) ==
    [c \in 0..(nc - 1) |->
        [a \in GLL |-> [b \in GLL |-> [t \in Times |-> base[c] * NodeFactor(a, b, t)]]]]

DecRecord(op, block, err, x, z) ==
    [op |-> op, block |-> block, err |-> err, x |-> x, z |-> z]

InitDecode ==
    /\ ncomp \in NComps
    /\ dump_type = "displ_only"
    /\ budget = 0
    /\ strain_buffer = << >>
    /\ displ_buffer = << >>
    /\ use_s = << >>
    /\ use_d = << >>
    /\ session = "decode"
    /\ call = NoCall
    /\ query = NoQuery
    /\ \E base \in [0..(ncomp - 1) -> DVals] :
          dec = DecRecord("drawn", DrawnBlock(ncomp, base), NoErr, None, None)
    /\ syn = NoSyn
    /\ hlp = NoHlp

\* lines 422 and 432-461 of _get_strain_interp on the drawn block
DecodeStrain ==
    /\ dec.op = "drawn"
    /\ LET utemp == ReorderUtemp(dec.block)
       IN dec' = DecRecord("strain", dec.block, NoErr,
                           StrainUtempX(utemp), StrainUtempZ(utemp))
    /\ UNCHANGED <<ncomp, dump_type, budget, strain_buffer, displ_buffer,
                   use_s, use_d, session, call, query, syn, hlp>>

\* lines 497-507 of _get_displacement on the drawn block
DecodeDispl ==
    /\ dec.op = "drawn"
    /\ LET d == DisplUtemp(ReorderUtemp(dec.block))
       IN dec' = DecRecord("displ", dec.block, d.err, d.x, d.z)
    /\ UNCHANGED <<ncomp, dump_type, budget, strain_buffer, displ_buffer,
                   use_s, use_d, session, call, query, syn, hlp>>

NextDecode == DecodeStrain \/ DecodeDispl

SpecDecode == InitDecode /\ [][NextDecode]_vars

\* the number of source channels of the drawn block
DecCount == Cardinality(DOMAIN dec.block)
\* the time-major source channel c at time sample t and node (a, b)
SrcChan(c, t, a, b) == dec.block[c][a][b][t]

ThreeChannelsMiddleZero(z) ==
    /\ NChan(z) = 3
    /\ \A t \in Times, a \in GLL, b \in GLL : z[t][a][b][1] = 0

\* C5: every vertical group that the strain decoder or the displacement
\* decoder builds has exactly 3 channels, and channel 1 is zero at every
\* time sample and node.
C5_VerticalGroupShape ==
    (dec.op \in {"strain", "displ"} /\ dec.err = NoErr /\ ~IsNone(dec.z)) =>
        ThreeChannelsMiddleZero(dec.z)

\* C6: the vertical group of the strain decoder is (s[0], 0, s[1]) for a
\* 2-channel snapshot and (s[3], 0, s[4]) for a 5-channel snapshot, s being
\* the time-major source channels.
C6_StrainVerticalRemap ==
    (dec.op = "strain" /\ DecCount \in {2, 5}) =>
        /\ ~IsNone(dec.z)
        /\ NChan(dec.z) = 3
        /\ \A t \in Times, a \in GLL, b \in GLL :
              LET lo == IF DecCount = 2 THEN 0 ELSE 3
              IN /\ dec.z[t][a][b][0] = SrcChan(lo, t, a, b)
                 /\ dec.z[t][a][b][1] = 0
                 /\ dec.z[t][a][b][2] = SrcChan(lo + 1, t, a, b)

\* a 5-channel block whose channels 2, 3 and 4 all differ and are not zero
C6_Witness ==
    /\ dec.op = "strain"
    /\ DecCount = 5
    /\ ~IsNone(dec.z)
    /\ SrcChan(3, 1, -1, -1) # 0
    /\ SrcChan(4, 1, -1, -1) # 0
    /\ SrcChan(2, 1, -1, -1) # SrcChan(3, 1, -1, -1)
    /\ SrcChan(3, 1, -1, -1) # SrcChan(4, 1, -1, -1)
    /\ dec.z[1][-1][-1][0] = SrcChan(3, 1, -1, -1)

\* C17: for every component count of at least 3 the horizontal group that
\* the strain decoder and the displacement decoder pass on has 3 channels
\* and equals the first three time-major source channels as read from
\* storage; the in-place remap that builds the vertical group changes no
\* value of it.
C17_HorizontalUntouched ==
    (dec.op \in {"strain", "displ"} /\ DecCount >= 3) =>
        /\ dec.err = NoErr
        /\ ~IsNone(dec.x)
        /\ NChan(dec.x) = 3
        /\ \A t \in Times, a \in GLL, b \in GLL, c \in 0..2 :
              dec.x[t][a][b][c] = SrcChan(c, t, a, b)

\* the displacement decoder on a 3-channel block, where the remap writes
\* to the channels 0 and 1 that the horizontal group is read from
C17_Witness ==
    /\ dec.op = "displ"
    /\ DecCount = 3
    /\ SrcChan(0, 1, -1, -1) # SrcChan(1, 1, -1, -1)
    /\ SrcChan(1, 1, -1, -1) # 0
    /\ dec.z[1][-1][-1][0] = SrcChan(1, 1, -1, -1)
    /\ dec.z[1][-1][-1][1] = 0
    /\ dec.x[1][-1][-1][0] = SrcChan(0, 1, -1, -1)
    /\ dec.x[1][-1][-1][1] = SrcChan(1, 1, -1, -1)

----------------------------------------------------------------------------
(* ComponentSynthesizer: the contraction of the interpolated fields with    *)
(* the rotated source, as written in _get_data and again in                 *)
(* _get_data_multiple.  Angles are degrees, multiples of 90, so that        *)
(* np.cos and np.sin are integers.                                          *)

Angles == {0, 90, 180, 270}
Cos(phi) == CASE phi = 0 -> 1 [] phi = 90 -> 0 [] phi = 180 -> -1 [] phi = 270 -> 0
Sin(phi) == CASE phi = 0 -> 0 [] phi = 90 -> 1 [] phi = 180 -> 0 [] phi = 270 -> -1

\* lines 92-93
Fac1Map(comp, phi) == IF comp = "N" THEN Cos(phi) ELSE Sin(phi)

\* fac_2_map without the negation of sin for N
Fac2MapNoNegation(comp, phi) == IF comp = "N" THEN Sin(phi) ELSE Cos(phi)

\* lines 94-95
Fac2Map(comp, phi) == IF comp = "N" THEN (-1) * Sin(phi) ELSE Cos(phi)

\* lines 268-269
Fac1MapMultiple(comp, phi) == IF comp = "N" THEN Cos(phi) ELSE Sin(phi)

\* lines 270-271
Fac2MapMultiple(comp, phi) == IF comp = "N" THEN (-1) * Sin(phi) ELSE Cos(phi)

\* the contraction with the radial sum weighting term 4 once, not twice
DataTensorWeightOne(mij, strain_x, strain_z, components, phi) ==
    LET horizontal == components \cap {"R", "T", "N", "E"}
        ne(comp) ==
            LET fac_1 == Fac1Map(comp, phi)
                fac_2 == Fac2Map(comp, phi)
                final == [t \in Times |->
                      0
                    + strain_x[t][0] * mij[0] * 1 * fac_1
                    + strain_x[t][1] * mij[1] * 1 * fac_1
                    + strain_x[t][2] * mij[2] * 1 * fac_1
                    + strain_x[t][3] * mij[3] * 2 * fac_2
                    + strain_x[t][4] * mij[4] * 2 * fac_1
                    + strain_x[t][5] * mij[5] * 2 * fac_2]
            IN IF comp = "N" THEN [t \in Times |-> final[t] * (-1)] ELSE final
    IN IF ("Z" \in components /\ IsNone(strain_z))
          \/ (horizontal # {} /\ IsNone(strain_x))
       THEN [err |-> "AttributeError", data |-> << >>]
       ELSE [err |-> NoErr,
             data |-> [comp \in components |->
                CASE comp = "Z" ->
                       [t \in Times |->
                            0 + mij[0] * strain_z[t][0] + mij[1] * strain_z[t][1]
                              + mij[2] * strain_z[t][2] + 2 * mij[4] * strain_z[t][4]]
                  [] comp = "R" ->
                       [t \in Times |->
                            0 - strain_x[t][0] * mij[0] * 1
                              - strain_x[t][1] * mij[1] * 1
                              - strain_x[t][2] * mij[2] * 1
                              - strain_x[t][4] * mij[4] * 1]
                  [] comp = "T" ->
                       [t \in Times |->
                            0 + strain_x[t][3] * mij[3] * 2
                              + strain_x[t][5] * mij[5] * 2]
                  [] OTHER -> ne(comp)]]

\* lines 129-166: the moment tensor contraction of _get_data; a requested
\* component whose strain group is None raises AttributeError (None.shape)
DataTensor(mij, strain_x, strain_z, components, phi) ==
    LET horizontal == components \cap {"R", "T", "N", "E"}
        ne(comp) ==
            LET fac_1 == Fac1Map(comp, phi)
                fac_2 == Fac2Map(comp, phi)
                final == [t \in Times |->
                      0
                    + strain_x[t][0] * mij[0] * 1 * fac_1
                    + strain_x[t][1] * mij[1] * 1 * fac_1
                    + strain_x[t][2] * mij[2] * 1 * fac_1
                    + strain_x[t][3] * mij[3] * 2 * fac_2
                    + strain_x[t][4] * mij[4] * 2 * fac_1
                    + strain_x[t][5] * mij[5] * 2 * fac_2]
            IN IF comp = "N" THEN [t \in Times |-> final[t] * (-1)] ELSE final
    IN IF ("Z" \in components /\ IsNone(strain_z))
          \/ (horizontal # {} /\ IsNone(strain_x))
       THEN [err |-> "AttributeError", data |-> << >>]
       ELSE [err |-> NoErr,
             data |-> [comp \in components |->
                CASE comp = "Z" ->
                       [t \in Times |->
                            0 + mij[0] * strain_z[t][0] + mij[1] * strain_z[t][1]
                              + mij[2] * strain_z[t][2] + 2 * mij[4] * strain_z[t][4]]
                  [] comp = "R" ->
                       [t \in Times |->
                            0 - strain_x[t][0] * mij[0] * 1
                              - strain_x[t][1] * mij[1] * 1
                              - strain_x[t][2] * mij[2] * 1
                              - strain_x[t][4] * mij[4] * 2]
                  [] comp = "T" ->
                       [t \in Times |->
                            0 + strain_x[t][3] * mij[3] * 2
                              + strain_x[t][5] * mij[5] * 2]
                  [] OTHER -> ne(comp)]]

\* lines 313-350: the moment tensor contraction of _get_data_multiple
DataTensorMultiple(mij, strain_x, strain_z, components, phi) ==
    LET horizontal == components \cap {"R", "T", "N", "E"}
        ne(comp) ==
            LET fac_1 == Fac1MapMultiple(comp, phi)
                fac_2 == Fac2MapMultiple(comp, phi)
                final == [t \in Times |->
                      0
                    + strain_x[t][0] * mij[0] * 1 * fac_1
                    + strain_x[t][1] * mij[1] * 1 * fac_1
                    + strain_x[t][2] * mij[2] * 1 * fac_1
                    + strain_x[t][3] * mij[3] * 2 * fac_2
                    + strain_x[t][4] * mij[4] * 2 * fac_1
                    + strain_x[t][5] * mij[5] * 2 * fac_2]
            IN IF comp = "N" THEN [t \in Times |-> final[t] * (-1)] ELSE final
    IN IF ("Z" \in components /\ IsNone(strain_z))
          \/ (horizontal # {} /\ IsNone(strain_x))
       THEN [err |-> "AttributeError", data |-> << >>]
       ELSE [err |-> NoErr,
             data |-> [comp \in components |->
                CASE comp = "Z" ->
                       [t \in Times |->
                            0 + mij[0] * strain_z[t][0] + mij[1] * strain_z[t][1]
                              + mij[2] * strain_z[t][2] + 2 * mij[4] * strain_z[t][4]]
                  [] comp = "R" ->
                       [t \in Times |->
                            0 - strain_x[t][0] * mij[0] * 1
                              - strain_x[t][1] * mij[1] * 1
                              - strain_x[t][2] * mij[2] * 1
                              - strain_x[t][4] * mij[4] * 2]
                  [] comp = "T" ->
                       [t \in Times |->
                            0 + strain_x[t][3] * mij[3] * 2
                              + strain_x[t][5] * mij[5] * 2]
                  [] OTHER -> ne(comp)]]

\* the force contraction that takes channel 2 of displ_x for the T term
DataForceWrongT(force, displ_x, displ_z, components, phi) ==
    [err |-> NoErr,
     data |-> [comp \in components |->
         CASE comp = "Z" ->
                [t \in Times |-> displ_z[t][0] * force[0] + displ_z[t][2] * force[2]]
           [] comp = "R" ->
                [t \in Times |-> displ_x[t][0] * force[0] + displ_x[t][2] * force[2]]
           [] comp = "T" ->
                [t \in Times |-> displ_x[t][2] * force[1]]
           [] OTHER ->
                [t \in Times |->
                    (IF comp = "N" THEN -1 ELSE 1)
                    * (displ_x[t][0] * force[0] * Fac1Map(comp, phi)
                       + displ_x[t][1] * force[1] * Fac2Map(comp, phi)
                       + displ_x[t][2] * force[2] * Fac1Map(comp, phi))]]]

\* lines 189-219: the force contraction of _get_data
DataForce(force, displ_x, displ_z, components, phi) ==
    LET ne(comp) ==
            LET fac_1 == Fac1Map(comp, phi)
                fac_2 == Fac2Map(comp, phi)
                final == [t \in Times |->
                      0
                    + displ_x[t][0] * force[0] * fac_1
                    + displ_x[t][1] * force[1] * fac_2
                    + displ_x[t][2] * force[2] * fac_1]
            IN IF comp = "N" THEN [t \in Times |-> final[t] * (-1)] ELSE final
    IN [err |-> NoErr,
        data |-> [comp \in components |->
            CASE comp = "Z" ->
                   [t \in Times |->
                        0 + displ_z[t][0] * force[0] + displ_z[t][2] * force[2]]
              [] comp = "R" ->
                   [t \in Times |->
                        0 + displ_x[t][0] * force[0] + displ_x[t][2] * force[2]]
              [] comp = "T" ->
                   [t \in Times |-> 0 + displ_x[t][1] * force[1]]
              [] OTHER -> ne(comp)]]

\* lines 365-395: the force contraction of _get_data_multiple
DataForceMultiple(force, displ_x, displ_z, components, phi) ==
    LET ne(comp) ==
            LET fac_1 == Fac1MapMultiple(comp, phi)
                fac_2 == Fac2MapMultiple(comp, phi)
                final == [t \in Times |->
                      0
                    + displ_x[t][0] * force[0] * fac_1
                    + displ_x[t][1] * force[1] * fac_2
                    + displ_x[t][2] * force[2] * fac_1]
            IN IF comp = "N" THEN [t \in Times |-> final[t] * (-1)] ELSE final
    IN [err |-> NoErr,
        data |-> [comp \in components |->
            CASE comp = "Z" ->
                   [t \in Times |->
                        0 + displ_z[t][0] * force[0] + displ_z[t][2] * force[2]]
              [] comp = "R" ->
                   [t \in Times |->
                        0 + displ_x[t][0] * force[0] + displ_x[t][2] * force[2]]
              [] comp = "T" ->
                   [t \in Times |-> 0 + displ_x[t][1] * force[1]]
              [] OTHER -> ne(comp)]]

----------------------------------------------------------------------------
(* Specification of the contraction alone: rotated sources and interpolated *)
(* fields are drawn, and the contraction of _get_data or of                 *)
(* _get_data_multiple is applied for a requested component set              *)

V6(a, b, c, d, e, f) ==
    [i \in 0..5 |-> CASE i = 0 -> a [] i = 1 -> b [] i = 2 -> c
                      [] i = 3 -> d [] i = 4 -> e [] i = 5 -> f]
V3(a, b, c) == [i \in 0..2 |-> CASE i = 0 -> a [] i = 1 -> b [] i = 2 -> c]

\* rotated, normalized moment tensors mij (the first one is isotropic)
SynTensors == {V6(2, 2, 2, 0, 0, 0), V6(1, 2, 3, 4, 5, 6), V6(-1, 0, 2, 3, -2, 1)}
\* rotated, normalized forces
SynForces == {V3(1, 2, 3), V3(-2, 0, 1)}
\* per-component values of the horizontal field and of the vertical field
SynValsX == {-1, 2}
SynBasesZ == {V6(1, 2, 3, 4, 5, 6), V6(-2, 1, 0, 3, -1, 2)}
\* a field that differs between time samples
SynField(base) == [t \in Times |-> [i \in DOMAIN base |-> base[i] * t + (t - 1)]]
First3(v) == [i \in 0..2 |-> v[i]]

SynRecord(op, kind, src, fx, fz, phi, components, data) ==
    [op |-> op, kind |-> kind, src |-> src, fx |-> fx, fz |-> fz, phi |-> phi,
     components |-> components, data |-> data]

InitSynth ==
    /\ ncomp = 5
    /\ dump_type = "displ_only"
    /\ budget = 0
    /\ strain_buffer = << >>
    /\ displ_buffer = << >>
    /\ use_s = << >>
    /\ use_d = << >>
    /\ session = "synth"
    /\ call = NoCall
    /\ query = NoQuery
    /\ dec = NoDec
    /\ hlp = NoHlp
    /\ \E bx \in [0..5 -> SynValsX], bz \in SynBasesZ, phi \in Angles :
          \/ \E m \in SynTensors :
                syn = SynRecord("drawn", "tensor", m, SynField(bx), SynField(bz),
                                phi, {}, << >>)
          \/ \E f \in SynForces :
                syn = SynRecord("drawn", "force", f, SynField(First3(bx)),
                                SynField(First3(bz)), phi, {}, << >>)

SynthStep(op, kind, components, r) ==
    /\ syn.op = "drawn"
    /\ syn.kind = kind
    /\ syn' = SynRecord(op, kind, syn.src, syn.fx, syn.fz, syn.phi, components, r.data)
    /\ UNCHANGED <<ncomp, dump_type, budget, strain_buffer, displ_buffer,
                   use_s, use_d, session, call, query, dec, hlp>>

SynthTensor(components) ==
    SynthStep("single", "tensor", components,
              DataTensor(syn.src, syn.fx, syn.fz, components, syn.phi))

SynthTensorMultiple(components) ==
    SynthStep("batch", "tensor", components,
              DataTensorMultiple(syn.src, syn.fx, syn.fz, components, syn.phi))

SynthForce(components) ==
    SynthStep("single", "force", components,
              DataForce(syn.src, syn.fx, syn.fz, components, syn.phi))

SynthForceMultiple(components) ==
    SynthStep("batch", "force", components,
              DataForceMultiple(syn.src, syn.fx, syn.fz, components, syn.phi))

NextSynth ==
    \E components \in SUBSET Components :
        \/ SynthTensor(components)
        \/ SynthTensorMultiple(components)
        \/ SynthForce(components)
        \/ SynthForceMultiple(components)

SpecSynth == InitSynth /\ [][NextSynth]_vars

SynDone(kind) == syn.op \in {"single", "batch"} /\ syn.kind = kind
IsIsotropic(m) == m[0] = m[1] /\ m[1] = m[2] /\ m[3] = 0 /\ m[4] = 0 /\ m[5] = 0

\* C9: for a moment tensor, in the single and in the batch call and at
\* every time sample, Z = mij[0]*strain_z[0] + mij[1]*strain_z[1]
\* + mij[2]*strain_z[2] + 2*mij[4]*strain_z[4],
\* R = -(strain_x[0]*mij[0] + strain_x[1]*mij[1] + strain_x[2]*mij[2]
\* + 2*strain_x[4]*mij[4]), T = 2*(strain_x[3]*mij[3] + strain_x[5]*mij[5]);
\* T is zero at every time sample for an isotropic tensor.
C9_TensorZRT ==
    SynDone("tensor") =>
        LET m == syn.src
            sx == syn.fx
            sz == syn.fz
        IN \A t \in Times :
            /\ "Z" \in syn.components =>
                  syn.data["Z"][t] = m[0] * sz[t][0] + m[1] * sz[t][1]
                                     + m[2] * sz[t][2] + 2 * m[4] * sz[t][4]
            /\ "R" \in syn.components =>
                  syn.data["R"][t] = -(sx[t][0] * m[0] + sx[t][1] * m[1]
                                       + sx[t][2] * m[2] + 2 * sx[t][4] * m[4])
            /\ "T" \in syn.components =>
                  /\ syn.data["T"][t] = 2 * (sx[t][3] * m[3] + sx[t][5] * m[5])
                  /\ IsIsotropic(m) => syn.data["T"][t] = 0

\* an isotropic tensor on a field whose shear terms are not zero
C9_Witness ==
    /\ SynDone("tensor")
    /\ syn.op = "batch"
    /\ syn.components = {"Z", "R", "T"}
    /\ IsIsotropic(syn.src)
    /\ syn.fx[NT][3] # 0
    /\ syn.fx[NT][5] # 0
    /\ syn.data["T"][NT] = 0
    /\ syn.data["R"][NT] # 0
    /\ syn.data["Z"][NT] # 0

\* the weighted sum of C10 with the azimuth factors f1 and f2
NESum(m, sx, t, f1, f2) ==
      (1 * sx[t][0] * m[0] + 1 * sx[t][1] * m[1] + 1 * sx[t][2] * m[2]
       + 2 * sx[t][4] * m[4]) * f1
    + (2 * sx[t][3] * m[3] + 2 * sx[t][5] * m[5]) * f2

\* C10: for a moment tensor, N and E are the sum of the six strain_x terms
\* times mij with weight 1 for terms 0, 1, 2 and weight 2 for terms 3, 4, 5,
\* terms 0, 1, 2, 4 times factor 1 and terms 3, 5 times factor 2; for N
\* factor 1 is cos(phi) and factor 2 is -sin(phi), for E factor 1 is
\* sin(phi) and factor 2 is cos(phi); only N is multiplied by -1.
C10_TensorNE ==
    SynDone("tensor") =>
        \A t \in Times :
            /\ "N" \in syn.components =>
                  syn.data["N"][t] =
                      -NESum(syn.src, syn.fx, t, Cos(syn.phi), -Sin(syn.phi))
            /\ "E" \in syn.components =>
                  syn.data["E"][t] =
                      NESum(syn.src, syn.fx, t, Sin(syn.phi), Cos(syn.phi))

\* at phi = 90 degrees factor 2 of N is -1: N and E are both not zero
C10_Witness ==
    /\ SynDone("tensor")
    /\ syn.op = "single"
    /\ syn.components = {"N", "E"}
    /\ syn.phi = 90
    /\ syn.src[3] # 0
    /\ syn.data["N"][1] # 0
    /\ syn.data["E"][1] # 0
    /\ syn.data["N"][1] # syn.data["E"][1]
    /\ syn.data["N"][1] # -syn.data["E"][1]

\* the sum of C11 with the azimuth factors f1 and f2
ForceNESum(f, dx, t, f1, f2) ==
    dx[t][0] * f[0] * f1 + dx[t][1] * f[1] * f2 + dx[t][2] * f[2] * f1

\* C11: for a force source, in the single and in the batch call and at
\* every time sample, Z = displ_z[0]*f[0] + displ_z[2]*f[2],
\* R = displ_x[0]*f[0] + displ_x[2]*f[2], T = displ_x[1]*f[1], N and E are
\* displ_x[0]*f[0]*fac1 + displ_x[1]*f[1]*fac2 + displ_x[2]*f[2]*fac1 with
\* the azimuth factors of the moment tensor, only N is negated, and the
\* output holds exactly the requested components.
C11_ForceContraction ==
    SynDone("force") =>
        LET f == syn.src
            dx == syn.fx
            dz == syn.fz
        IN /\ DOMAIN syn.data = syn.components
           /\ \A t \in Times :
                /\ "Z" \in syn.components =>
                      syn.data["Z"][t] = dz[t][0] * f[0] + dz[t][2] * f[2]
                /\ "R" \in syn.components =>
                      syn.data["R"][t] = dx[t][0] * f[0] + dx[t][2] * f[2]
                /\ "T" \in syn.components =>
                      syn.data["T"][t] = dx[t][1] * f[1]
                /\ "N" \in syn.components =>
                      syn.data["N"][t] =
                          -ForceNESum(f, dx, t, Cos(syn.phi), -Sin(syn.phi))
                /\ "E" \in syn.components =>
                      syn.data["E"][t] =
                          ForceNESum(f, dx, t, Sin(syn.phi), Cos(syn.phi))

\* a force with three non-zero terms at phi = 90 degrees, all five
\* components requested: T differs from what channel 2 would give
C11_Witness ==
    /\ SynDone("force")
    /\ syn.op = "single"
    /\ syn.components = Components
    /\ syn.phi = 90
    /\ syn.src[1] # 0
    /\ syn.fx[1][1] # syn.fx[1][2]
    /\ syn.data["T"][1] # 0
    /\ syn.data["N"][1] # syn.data["E"][1]
    /\ syn.data["Z"][1] # syn.data["R"][1]

----------------------------------------------------------------------------
(* _get_data and _get_data_multiple                                         *)

\* External (rotations, the mesh tables): stand-ins.  The three rotations
\* of the source into the receiver's azimuth frame and the division by
\* parsed_mesh.amplitude (2 in the modelled database) are one exact integer
\* map per azimuth.
RotatedTensor(tensor_voigt, phi) ==
    LET m == tensor_voigt IN
    IF phi \in {0, 180}
    THEN [i \in 0..5 |-> m[i] \div 2]
    ELSE [i \in 0..5 |-> CASE i = 0 -> m[1] \div 2 [] i = 1 -> m[0] \div 2
                           [] i = 2 -> m[2] \div 2 [] i = 3 -> m[4] \div 2
                           [] i = 4 -> m[3] \div 2 [] i = 5 -> (-m[5]) \div 2]

RotatedForce(force_tpr, phi) ==
    LET f == force_tpr IN
    IF phi \in {0, 180}
    THEN [i \in 0..2 |-> f[i] \div 2]
    ELSE [i \in 0..2 |-> CASE i = 0 -> f[1] \div 2 [] i = 1 -> (-f[0]) \div 2
                           [] i = 2 -> f[2] \div 2]

\* mesh_<name>[ei.gll_point_ids[npol // 2, npol // 2]]
ParamNames == {"mu", "rho", "lambda", "xi", "phi", "eta"}
MeshParam(name, e) ==
    e * 10 + (CASE name = "mu" -> 1 [] name = "rho" -> 2 [] name = "lambda" -> 3
                [] name = "xi" -> 4 [] name = "phi" -> 5 [] name = "eta" -> 6)

\* the result of a query: the error raised (and the stage that raised it)
\* or the returned data, the buffers it leaves, and what it did on the way
QueryResult(err, stage, sbuf, dbuf, params, data_all, s, d) ==
    [err |-> err, stage |-> stage, sbuf |-> sbuf, dbuf |-> dbuf,
     params |-> params, data_all |-> data_all,
     reads |-> s.reads + d.reads, derivs |-> s.derivs,
     interps |-> s.interps + d.interps,
     ops_s |-> s.ops, ops_d |-> d.ops]

NotCalled == [reads |-> 0, derivs |-> 0, interps |-> 0, ops |-> << >>]

\* lines 89-167 once the strain s is there: rotate, contract, return
TensorData(s, r, dbuf, params) ==
    IF s.err # NoErr
    THEN QueryResult(s.err, "strain", s.buf, dbuf, << >>, << >>, s, NotCalled)
    ELSE IF r.err # NoErr
    THEN QueryResult(r.err, "contraction", s.buf, dbuf, << >>, << >>, s, NotCalled)
    ELSE QueryResult(NoErr, "", s.buf, dbuf, params, <<r.data>>, s, NotCalled)

TensorBranch(s, dbuf, source, components, phi, params) ==
    TensorData(s, DataTensor(RotatedTensor(source.v, phi), s.x, s.z,
                             components, phi), dbuf, params)

\* lines 175-219 once the displacement d is there
ForceData(d, r, sbuf, params) ==
    IF d.err # NoErr
    THEN QueryResult(d.err, "displacement", sbuf, d.buf, << >>, << >>,
                     NotCalled, d)
    ELSE QueryResult(NoErr, "", sbuf, d.buf, params, <<r.data>>, NotCalled, d)

ForceBranch(d, sbuf, source, components, phi, params) ==
    ForceData(d, DataForce(RotatedForce(source.v, phi), d.x, d.z,
                           components, phi), sbuf, params)

\* _get_data fetching the strain before it looks at the kind of the source
GetDataFetchFirst(sbuf, dbuf, max, nc, dt, source, components, e, xi, eta, phi) ==
    IF dt # "displ_only"
    THEN QueryResult("NotImplementedError", "dump_type", sbuf, dbuf, << >>, << >>,
                     NotCalled, NotCalled)
    ELSE IF source.type = "Source"
    THEN TensorBranch(GetStrainInterp(sbuf, max, nc, e, SelectGT(ElementAxis(e)),
                                      xi, eta),
                      dbuf, source, components, phi,
                      [n \in {"mu"} |-> MeshParam(n, e)])
    ELSE IF source.type = "ForceSource"
    THEN ForceBranch(GetDisplacement(dbuf, max, nc, e, xi, eta),
                     sbuf, source, components, phi,
                     [n \in {"mu"} |-> MeshParam(n, e)])
    ELSE QueryResult("NotImplementedError", "source_type",
                     StrainMiss(sbuf, max, nc, e, SelectGT(ElementAxis(e))).buf,
                     dbuf, << >>, << >>, NotCalled, NotCalled)

\* _get_data(source, receiver, components, coordinates, element_info)
GetData(sbuf, dbuf, max, nc, dt, source, components, e, xi, eta, phi) ==
    IF dt # "displ_only"
    THEN \* line 87
         QueryResult("NotImplementedError", "dump_type", sbuf, dbuf, << >>, << >>,
                     NotCalled, NotCalled)
    ELSE IF source.type = "Source"
    THEN TensorBranch(GetStrainInterp(sbuf, max, nc, e, SelectGT(ElementAxis(e)),
                                      xi, eta),
                      dbuf, source, components, phi,
                      [n \in {"mu"} |-> MeshParam(n, e)])
    ELSE IF source.type = "ForceSource"
    THEN ForceBranch(GetDisplacement(dbuf, max, nc, e, xi, eta),
                     sbuf, source, components, phi,
                     [n \in {"mu"} |-> MeshParam(n, e)])
    ELSE \* line 222
         QueryResult("NotImplementedError", "source_type", sbuf, dbuf,
                     << >>, << >>, NotCalled, NotCalled)

\* one pass of the loop over sources.pointsources (lines 298-399)
SourceData(source, f) ==
    IF source.type = "Source"
    THEN DataTensorMultiple(RotatedTensor(source.v, f.phi), f.sx, f.sz,
                            f.components, f.phi)
    ELSE IF source.type = "ForceSource"
    THEN DataForceMultiple(RotatedForce(source.v, f.phi), f.dx, f.dz,
                           f.components, f.phi)
    ELSE [err |-> "NotImplementedError", data |-> << >>]

\* the loop: an exception ends it and drops data_all
RECURSIVE SourceLoop(_, _, _, _)
RECURSIVE SourceNext(_, _, _, _, _)
SourceLoop(sources, i, data_all, f) ==
    IF i > Len(sources)
    THEN [err |-> NoErr, stage |-> "", data_all |-> data_all]
    ELSE SourceNext(sources, i, data_all, f, SourceData(sources[i], f))

SourceNext(sources, i, data_all, f, r) ==
    IF r.err # NoErr
    THEN [err |-> r.err,
          stage |-> IF sources[i].type \in {"Source", "ForceSource"}
                    THEN "contraction" ELSE "source_type",
          data_all |-> << >>]
    ELSE SourceLoop(sources, i + 1, Append(data_all, r.data), f)

\* lines 237-401 once the strain s and the displacement d are there
BatchData(s, d, l, dbuf, params) ==
    IF s.err # NoErr
    THEN QueryResult(s.err, "strain", s.buf, dbuf, << >>, << >>, s, NotCalled)
    ELSE IF d.err # NoErr
    THEN QueryResult(d.err, "displacement", s.buf, d.buf, << >>, << >>, s, d)
    ELSE IF l.err # NoErr
    THEN QueryResult(l.err, l.stage, s.buf, d.buf, << >>, << >>, s, d)
    ELSE QueryResult(NoErr, "", s.buf, d.buf, params, l.data_all, s, d)

\* the batch call fetching the fields again for every source of the list
BatchBranchPerSource(s, d, dbuf, sources, components, phi, params) ==
    BatchData([s EXCEPT !.reads = s.reads * Len(sources),
                        !.derivs = s.derivs * Len(sources),
                        !.interps = s.interps * Len(sources)],
              [d EXCEPT !.reads = d.reads * Len(sources),
                        !.interps = d.interps * Len(sources)],
              SourceLoop(sources, 1, << >>,
                         [sx |-> s.x, sz |-> s.z, dx |-> d.x, dz |-> d.z,
                          components |-> components, phi |-> phi]),
              dbuf, params)

BatchBranch(s, d, dbuf, sources, components, phi, params) ==
    BatchData(s, d,
              SourceLoop(sources, 1, << >>,
                         [sx |-> s.x, sz |-> s.z, dx |-> d.x, dz |-> d.z,
                          components |-> components, phi |-> phi]),
              dbuf, params)

\* _get_data_multiple(sources, receiver, components, coordinates, element_info)
GetDataMultiple(sbuf, dbuf, max, nc, dt, sources, components, e, xi, eta, phi) ==
    IF dt # "displ_only"
    THEN \* line 235
         QueryResult("ValueError", "dump_type", sbuf, dbuf, << >>, << >>,
                     NotCalled, NotCalled)
    ELSE BatchBranch(GetStrainInterp(sbuf, max, nc, e, SelectGT(ElementAxis(e)),
                                     xi, eta),
                     GetDisplacement(dbuf, max, nc, e, xi, eta),
                     dbuf, sources, components, phi,
                     [n \in ParamNames |-> MeshParam(n, e)])

----------------------------------------------------------------------------
(* Specification of the queries: _get_data and _get_data_multiple on an     *)
(* opened database; the caller takes the result (or the exception) before   *)
(* the next query                                                           *)

QueryElements == {1, 2}
QueryTarget == <<0, 0>>
QueryAngles == {90}
QuerySources == {[type |-> "Source", v |-> V6(2, 4, 6, 8, 10, 12)],
                 [type |-> "ForceSource", v |-> V3(2, 4, 6)],
                 [type |-> "Other", v |-> << >>]}
\* no component, vertical only, horizontal only, both
ComponentSets == {{}, {"Z"}, {"E"}, {"Z", "R"}, {"R", "T", "N"}, Components}
QueryBudgets == {0, MaxBudget * StrainArrayBytes}
SourceLists == UNION {[1..n -> QuerySources] : n \in 0..MaxSources}

QueryRecord(op, sources, components, e, phi, r) ==
    [op |-> op, sources |-> sources, components |-> components, e |-> e,
     phi |-> phi, sbuf0 |-> strain_buffer, dbuf0 |-> displ_buffer,
     err |-> r.err, stage |-> r.stage, params |-> r.params,
     data_all |-> r.data_all, reads |-> r.reads, derivs |-> r.derivs,
     interps |-> r.interps, ops_s |-> r.ops_s, ops_d |-> r.ops_d]

InitQuery ==
    /\ ncomp \in NComps
    /\ dump_type \in DumpTypes
    /\ budget \in QueryBudgets
    /\ strain_buffer = << >>
    /\ displ_buffer = << >>
    /\ use_s = << >>
    /\ use_d = << >>
    /\ session = "query"
    /\ call = NoCall
    /\ query = NoQuery
    /\ dec = NoDec
    /\ syn = NoSyn
    /\ hlp = NoHlp

QueryStep(op, sources, components, e, phi, r) ==
    /\ query.op = "none"
    /\ strain_buffer' = r.sbuf
    /\ displ_buffer' = r.dbuf
    /\ query' = QueryRecord(op, sources, components, e, phi, r)
    /\ UNCHANGED <<ncomp, dump_type, budget, use_s, use_d, session, call,
                   dec, syn, hlp>>

CallGetData(source, components, e, phi) ==
    QueryStep("single", <<source>>, components, e, phi,
              GetData(strain_buffer, displ_buffer, budget, ncomp, dump_type,
                      source, components, e, QueryTarget[1], QueryTarget[2], phi))

CallGetDataMultiple(sources, components, e, phi) ==
    QueryStep("batch", sources, components, e, phi,
              GetDataMultiple(strain_buffer, displ_buffer, budget, ncomp,
                              dump_type, sources, components, e,
                              QueryTarget[1], QueryTarget[2], phi))

\* the caller has the result: the next query can start
QueryReturn ==
    /\ query.op # "none"
    /\ query' = NoQuery
    /\ UNCHANGED <<ncomp, dump_type, budget, strain_buffer, displ_buffer,
                   use_s, use_d, session, call, dec, syn, hlp>>

NextQuery ==
    \/ \E source \in QuerySources, components \in ComponentSets,
          e \in QueryElements, phi \in QueryAngles :
            CallGetData(source, components, e, phi)
    \/ \E sources \in SourceLists, components \in ComponentSets,
          e \in QueryElements, phi \in QueryAngles :
            CallGetDataMultiple(sources, components, e, phi)
    \/ QueryReturn

SpecQuery == InitQuery /\ [][NextQuery]_vars

----------------------------------------------------------------------------
(* Properties of the queries                                                *)

QueryDone == query.op # "none"
SingleDone == query.op = "single"
BatchDone == query.op = "batch"

\* what the requested components read: R, T, N, E read the horizontal group,
\* Z reads the vertical group (lines 129-166 and 189-219)
NeedsHorizontal(components) == components \cap {"R", "T", "N", "E"} # {}
NeedsVertical(components) == "Z" \in components
\* what a component count provides (spec: horizontal for 3 and 5, vertical
\* for 2 and 5)
ProvidesHorizontal(nc) == nc \in {3, 5}
ProvidesVertical(nc) == nc \in {2, 5}
GroupsProvided(nc, components) ==
    /\ NeedsHorizontal(components) => ProvidesHorizontal(nc)
    /\ NeedsVertical(components) => ProvidesVertical(nc)
AllSupported(sources) ==
    \A i \in DOMAIN sources : sources[i].type \in {"Source", "ForceSource"}

\* the batch call on the state and the inputs of the single call just made
BatchOfSingle ==
    GetDataMultiple(query.sbuf0, query.dbuf0, budget, ncomp, dump_type,
                    query.sources, query.components, query.e,
                    QueryTarget[1], QueryTarget[2], query.phi)

SameAsBatch(b) ==
    /\ b.err = NoErr
    /\ Len(b.data_all) = 1
    /\ b.data_all[1] = query.data_all[1]

\* C2: whenever the single-source call _get_data succeeds (here for at
\* least one requested component, on a database with one of the component
\* counts 2, 3, 5), the batch call
\* _get_data_multiple for the list holding only that source, from the same
\* state and with the same element and components, succeeds too and its
\* one entry holds the same time series for every component.
C2_BatchEqualsSingle ==
    (/\ SingleDone
     /\ query.err = NoErr
     /\ query.components # {}
     /\ ncomp \in {2, 3, 5})
        => SameAsBatch(BatchOfSingle)

\* C4: a query of supported sources on a "displ_only" database whose
\* component count does not provide a group that the requested components
\* need fails with the unsupported-dump-configuration error (the code's
\* failure on a missing group, AttributeError, is taken for it) and returns
\* no output; it never fails with another error and never returns a result.
C4_UnsupportedCountFails ==
    (/\ QueryDone
     /\ dump_type = "displ_only"
     /\ query.sources # << >>
     /\ AllSupported(query.sources)
     /\ ~GroupsProvided(ncomp, query.components))
        => (query.err = "AttributeError" /\ query.data_all = << >>)

\* C7: a query for at least one component on a "displ_only" database (whose
\* component count provides every group the requested components need)
\* with a source that is neither
\* a moment tensor nor a force fails with the unsupported-source-type error
\* (NotImplementedError of the source dispatch), in the single call and at
\* any position of the batch list, and returns no result.
C7_UnsupportedSourceFails ==
    (/\ QueryDone
     /\ dump_type = "displ_only"
     /\ query.components # {}
     /\ GroupsProvided(ncomp, query.components)
     /\ ~AllSupported(query.sources))
        => (/\ query.err = "NotImplementedError"
            /\ query.stage = "source_type"
            /\ query.data_all = << >>)

\* C8: on a database whose dump type is not "displ_only", the single call
\* and the batch call both fail with the not-implemented error kind
\* (NotImplementedError), before any snapshot read and before any
\* contains/get/add on either buffer.
C8_DumpTypeFailsAtOnce ==
    (QueryDone /\ dump_type # "displ_only")
        => (/\ query.err = "NotImplementedError"
            /\ query.reads = 0
            /\ query.ops_s = << >>
            /\ query.ops_d = << >>
            /\ strain_buffer = query.sbuf0
            /\ displ_buffer = query.dbuf0)

\* the batch call for the empty source list on the state and the inputs of
\* the batch call just made
BatchOfNone ==
    GetDataMultiple(query.sbuf0, query.dbuf0, budget, ncomp, dump_type,
                    << >>, query.components, query.e,
                    QueryTarget[1], QueryTarget[2], query.phi)

SameWork(b) ==
    /\ query.reads = b.reads
    /\ query.derivs = b.derivs
    /\ query.interps = b.interps
    /\ query.ops_s = b.ops_s
    /\ query.ops_d = b.ops_d

MissCount ==
    (IF BufferContains(query.sbuf0, query.e) THEN 0 ELSE 1)
    + (IF BufferContains(query.dbuf0, query.e) THEN 0 ELSE 1)

\* C13 as stated: the work of a (successful) batch call does not depend on
\* the source list and the snapshot block of the element is read at most
\* once per batch call.
C13_Original ==
    (BatchDone /\ query.err = NoErr) =>
        (SameWork(BatchOfNone) /\ query.reads <= 1)

\* C13, amended: the snapshot reads, derivative calls and interpolation
\* calls of a batch call are those of the batch call for the empty source
\* list, a successful call returns one entry per source, and the snapshot
\* block of the element is read once for each of the two buffers that does
\* not hold the element: at most twice per batch call.
C13_BatchWorkOnce ==
    BatchDone =>
        /\ SameWork(BatchOfNone)
        /\ query.err = NoErr => Len(query.data_all) = Len(query.sources)
        /\ query.reads <= 2
        /\ dump_type = "displ_only" => query.reads = MissCount

\* a successful batch call for two sources on empty buffers: two reads
C13_Witness ==
    /\ BatchDone
    /\ query.err = NoErr
    /\ Len(query.sources) = MaxSources
    /\ query.sbuf0 = << >>
    /\ query.dbuf0 = << >>
    /\ query.reads = 2
    /\ query.derivs > 0
    /\ query.interps > 0

BuffersUntouched ==
    /\ strain_buffer = query.sbuf0
    /\ displ_buffer = query.dbuf0
    /\ query.ops_s = << >>
    /\ query.ops_d = << >>

\* the ids of a buffer other than the queried element, least recently used
\* first
OtherIds(buf) == SelectSeq(IdsOf(buf), LAMBDA j : j # query.e)
IsSuffix(a, b) == \E k \in 0..Len(b) : a = SubSeq(b, k + 1, Len(b))

\* the buffer after differs from the buffer before as by one fetch of the
\* queried element: only that element is added or moved, the entries of
\* the other elements keep their values and their order, and those that
\* are gone were the least recently used ones
ChangedAsByFetch(before, after) ==
    \/ after = before
    \/ /\ IsSuffix(OtherIds(after), OtherIds(before))
       /\ \A i \in DOMAIN after :
             after[i].id # query.e =>
                 after[i].value = BufferValue(before, after[i].id)
       /\ BufferContains(after, query.e) => after[Len(after)].id = query.e

\* C18 as stated (for the failures that name an unsupported source type or
\* dump type): a query that fails leaves both buffers as they were before
\* the query, in the single call and in the batch call.
C18_Original ==
    (QueryDone /\ query.err = "NotImplementedError") =>
        (strain_buffer = query.sbuf0 /\ displ_buffer = query.dbuf0)

\* C18, amended: a query that fails at the test of the dump type, or in the
\* single call at the dispatch on the source type, leaves both buffers as
\* they were and makes no buffer operation; a query that fails later (the
\* batch call on an unsupported source, or a component the fetched fields
\* cannot give) has made its fetches, and each buffer differs from before
\* at most as by one fetch of the queried element.
C18_FailedQueryBuffers ==
    (QueryDone /\ query.err # NoErr) =>
        /\ (query.stage = "dump_type"
            \/ (SingleDone /\ query.stage = "source_type")) => BuffersUntouched
        /\ ChangedAsByFetch(query.sbuf0, strain_buffer)
        /\ ChangedAsByFetch(query.dbuf0, displ_buffer)

\* a batch call that fails on an unsupported source after its fetch has
\* evicted the other element from the strain buffer
C18_Witness ==
    /\ BatchDone
    /\ query.err = "NotImplementedError"
    /\ query.stage = "source_type"
    /\ ncomp = 5
    /\ query.sbuf0 # << >>
    /\ ~BufferContains(query.sbuf0, query.e)
    /\ IdsOf(strain_buffer) = <<query.e>>
    /\ Len(displ_buffer) = 2


-----------------------------------------------------------------------------
(* helpers.io_chunker: indices grouped so that adjacent items are read in
   one go.  The returned list idx is a sequence of items; a plain index k is
   the one-element tuple <<k>> and a chunk [start, stop] is the two-element
   tuple <<start, stop>>, so isinstance(item, list) is Len(item) = 2. *)

MaxArrLen == 5
MaxIndex == 3

ChunkIndices == 0..MaxIndex
ChunkArrays == UNION {[1..n -> ChunkIndices] : n \in 0..MaxArrLen}

IsList(item) == Len(item) = 2

\* the loop body with the new chunk one item short: [idx[-1], idx[-1] + 1]
ChunkStepShortStop(idx, arr, i) ==
    IF i = 1
    THEN Append(idx, <<arr[i]>>)
    ELSE LET diff == arr[i] - arr[i - 1]
             last == idx[Len(idx)]
         IN  IF diff = 1
             THEN IF IsList(last)
                  THEN [idx EXCEPT ![Len(idx)] = <<last[1], last[2] + 1>>]
                  ELSE [idx EXCEPT ![Len(idx)] = <<last[1], last[1] + 1>>]
             ELSE Append(idx, <<arr[i]>>)

\* lines 152-162: one pass of the loop, for the item at position i (1-based
\* here, _i = i - 1 in the code)
ChunkStep(idx, arr, i) ==
    IF i = 1
    THEN Append(idx, <<arr[i]>>)
    ELSE LET diff == arr[i] - arr[i - 1]
             last == idx[Len(idx)]
         IN  IF diff = 1
             THEN IF IsList(last)
                  THEN [idx EXCEPT ![Len(idx)] = <<last[1], last[2] + 1>>]
                  ELSE [idx EXCEPT ![Len(idx)] = <<last[1], last[1] + 2>>]
             ELSE Append(idx, <<arr[i]>>)

RECURSIVE ChunkLoop(_, _, _)
ChunkLoop(idx, arr, i) ==
    IF i > Len(arr) THEN idx ELSE ChunkLoop(ChunkStep(idx, arr, i), arr, i + 1)

io_chunker(arr) == ChunkLoop(<< >>, arr, 1)

HlpChunk(op, arr, idx) == [op |-> op, arr |-> arr, idx |-> idx]

InitChunk ==
    /\ ncomp = 5
    /\ dump_type = "displ_only"
    /\ budget = 0
    /\ strain_buffer = << >>
    /\ displ_buffer = << >>
    /\ use_s = << >>
    /\ use_d = << >>
    /\ session = "chunk"
    /\ call = NoCall
    /\ query = NoQuery
    /\ dec = NoDec
    /\ syn = NoSyn
    /\ \E arr \in ChunkArrays : hlp = HlpChunk("drawn", arr, << >>)

CallIoChunker ==
    /\ hlp.op = "drawn"
    /\ hlp' = HlpChunk("io_chunker", hlp.arr, io_chunker(hlp.arr))
    /\ UNCHANGED <<ncomp, dump_type, budget, strain_buffer, displ_buffer,
                   use_s, use_d, session, call, query, dec, syn>>

NextChunk == CallIoChunker

SpecChunk == InitChunk /\ [][NextChunk]_vars

\* the indices an item stands for
ItemIndices(item) ==
    IF IsList(item)
    THEN [k \in 1..(item[2] - item[1]) |-> item[1] + k - 1]
    ELSE <<item[1]>>

RECURSIVE Expand(_)
Expand(idx) ==
    IF idx = << >> THEN << >> ELSE ItemIndices(Head(idx)) \o Expand(Tail(idx))

\* position in arr of the first index of item k
ItemFirst(idx, k) == Len(Expand(SubSeq(idx, 1, k - 1))) + 1
ItemLast(idx, k) == Len(Expand(SubSeq(idx, 1, k)))

Adjacent(arr, p) == p \in 1..(Len(arr) - 1) /\ arr[p + 1] - arr[p] = 1

\* C19: for every sequence of indices arr, expanding each chunk of
\* io_chunker(arr) to start, ..., stop - 1 and keeping each plain index gives
\* back arr, in order and with the same length; every chunk has
\* stop - start >= 2 and covers a maximal run of adjacent items: the items
\* inside the chunk are adjacent and neither the item before it nor the item
\* after it continues the run.
C19_ChunksExpandToArr ==
    hlp.op = "io_chunker" =>
        /\ \A k \in DOMAIN hlp.idx : Len(hlp.idx[k]) \in {1, 2}
        /\ Expand(hlp.idx) = hlp.arr
        /\ Len(Expand(hlp.idx)) = Len(hlp.arr)
        /\ \A k \in DOMAIN hlp.idx :
              IsList(hlp.idx[k]) =>
                  /\ hlp.idx[k][2] - hlp.idx[k][1] >= 2
                  /\ \A p \in ItemFirst(hlp.idx, k)..(ItemLast(hlp.idx, k) - 1) :
                        Adjacent(hlp.arr, p)
                  /\ ~Adjacent(hlp.arr, ItemFirst(hlp.idx, k) - 1)
                  /\ ~Adjacent(hlp.arr, ItemLast(hlp.idx, k))

\* a run of three adjacent items became one chunk and a later run a second one
C19_Witness ==
    /\ hlp.op = "io_chunker"
    /\ \E j, k \in DOMAIN hlp.idx :
          /\ j < k
          /\ IsList(hlp.idx[j])
          /\ hlp.idx[j][2] - hlp.idx[j][1] = 3
          /\ IsList(hlp.idx[k])
          /\ hlp.idx[k][1] <= hlp.idx[j][1]

-----------------------------------------------------------------------------
(* helpers.resample: the zero padding done under strict_length, lines
   246-257.  The sampling rates are drawn with an integer ratio, so that
   float(old_sampling_rate) / float(new_sampling_rate) is that integer
   exactly and len(data) % factor is the integer remainder.  data is a
   sequence of samples; the Fourier resampling after the padding is not
   modelled. *)

MaxNpts == 8
MaxFactor == 5
MaxRate == 2

SampleValue == 1
ResampleData == {[i \in 1..n |-> SampleValue] : n \in 1..MaxNpts}
ResampleRates == {r \in (1..(MaxFactor * MaxRate)) \X (1..MaxRate) :
                      r[1] % r[2] = 0 /\ r[1] \div r[2] <= MaxFactor}

\* line 246, for rates with an integer ratio
ResampleFactor(old_sampling_rate, new_sampling_rate) ==
    old_sampling_rate \div new_sampling_rate

\* np.zeros(n)
Zeros(n) == [i \in 1..n |-> 0]

\* lines 249-257
ResamplePad(data, factor, strict_length) ==
    IF ~strict_length
    THEN [err |-> NoErr, data |-> data]
    ELSE LET mod_check == Len(data) % factor
         IN  IF mod_check # 0
             THEN LET padded == data \o Zeros(mod_check)
                      mod_check2 == Len(padded) % factor
                  IN  IF mod_check2 # 0
                      THEN [err |-> "ValueError", data |-> padded]
                      ELSE [err |-> NoErr, data |-> padded]
             ELSE [err |-> NoErr, data |-> data]

HlpResample(op, data0, old, new, strict, r) ==
    [op |-> op, data0 |-> data0, old_sampling_rate |-> old,
     new_sampling_rate |-> new, strict_length |-> strict,
     factor |-> ResampleFactor(old, new), err |-> r.err, data |-> r.data]

InitResample ==
    /\ ncomp = 5
    /\ dump_type = "displ_only"
    /\ budget = 0
    /\ strain_buffer = << >>
    /\ displ_buffer = << >>
    /\ use_s = << >>
    /\ use_d = << >>
    /\ session = "resample"
    /\ call = NoCall
    /\ query = NoQuery
    /\ dec = NoDec
    /\ syn = NoSyn
    /\ \E data \in ResampleData, r \in ResampleRates :
          hlp = HlpResample("drawn", data, r[1], r[2], FALSE,
                            [err |-> NoErr, data |-> data])

CallResample(strict_length) ==
    /\ hlp.op = "drawn"
    /\ hlp' = HlpResample("resample", hlp.data0, hlp.old_sampling_rate,
                          hlp.new_sampling_rate, strict_length,
                          ResamplePad(hlp.data0, hlp.factor, strict_length))
    /\ UNCHANGED <<ncomp, dump_type, budget, strain_buffer, displ_buffer,
                   use_s, use_d, session, call, query, dec, syn>>

NextResample == \E strict_length \in BOOLEAN : CallResample(strict_length)

SpecResample == InitResample /\ [][NextResample]_vars

\* C20: with strict_length set, for every data length of at least 1 and
\* every integer factor of at least 1, the padding of resample makes the data
\* length a multiple of factor, so that the ValueError "something went wrong
\* with padding" is never raised, and data whose length is already a multiple
\* of factor is not padded.
C20_PaddingReachesMultiple ==
    (hlp.op = "resample" /\ hlp.strict_length /\ Len(hlp.data0) >= 1
        /\ hlp.factor >= 1) =>
        /\ hlp.err = NoErr
        /\ Len(hlp.data) % hlp.factor = 0
        /\ Len(hlp.data0) % hlp.factor = 0 => hlp.data = hlp.data0

====
